---------------------------- MODULE Spec2Model ----------------------------
(***************************************************************************)
(* A model of the noughts-and-crosses solver of src/src/lib.rs: the Board  *)
(* value (two u16 occupancy sets, relative to the side to move), its       *)
(* validated constructors, the Moves iterator, and the recursive           *)
(* solve_inner / solve search, run as an explicit call stack.              *)
(*                                                                         *)
(* A u16 is modelled as the set of the indices of its set bits, a subset   *)
(* of 0..15: & is intersection, | is union, ^ is symmetric difference, !   *)
(* is the complement within 0..15 and count_ones is the cardinality.       *)
(* Arithmetic on a u16 (bits - 1) goes through its integer value.          *)
(***************************************************************************)
EXTENDS Integers, Sequences, FiniteSets, TLC

(***************************************************************************)
(* Bounds of the model (not program constants).                            *)
(***************************************************************************)
\* with_move is called with the cell indices 0..MaxCell (8 is the last cell).
MaxCell == 10
\* from_bits is given every pair of in-range occupancy sets, and every pair
\* of u16 values with at most MaxStrayBits bits set in total.
MaxStrayBits == 2

(***************************************************************************)
(* u16 values                                                              *)
(***************************************************************************)
\* The width of u16.
Width == 16
BitIdx == 0 .. (Width - 1)

\* The u16 with the binary representation of n (n in 0..65535).
Bits(n) == {i \in BitIdx : (n \div (2 ^ i)) % 2 = 1}

\* The integer value of a u16.
Val(a) ==
  LET w(i) == IF i \in a THEN 2 ^ i ELSE 0
  IN  w(0) + w(1) + w(2) + w(3) + w(4) + w(5) + w(6) + w(7)
      + w(8) + w(9) + w(10) + w(11) + w(12) + w(13) + w(14) + w(15)

BitAnd(a, b) == a \cap b
BitOr(a, b) == a \cup b
BitXor(a, b) == (a \ b) \cup (b \ a)
BitNot(a) == BitIdx \ a
count_ones(a) == Cardinality(a)
\* a - 1 on u16 (two's complement wrap-around at the width).
Sub1(a) == Bits((Val(a) + (2 ^ Width) - 1) % (2 ^ Width))
\* 1u16 << n
Shl1(n) == {n} \cap BitIdx
is_power_of_two(a) == Cardinality(a) = 1

(***************************************************************************)
(* mod board                                                               *)
(***************************************************************************)
\* struct Board { player: u16, opponent: u16 }
MkBoard(p, o) == [player |-> p, opponent |-> o]

LINE_MASKS ==
  << Bits(7),      \* 0b000000111
     Bits(56),     \* 0b000111000
     Bits(448),    \* 0b111000000
     Bits(73),     \* 0b001001001
     Bits(146),    \* 0b010010010
     Bits(292),    \* 0b100100100
     Bits(273),    \* 0b100010001
     Bits(84) >>   \* 0b001010100

\* A has_won that is content with any cell of a line.
has_won_any_cell(places) ==
  \E k \in DOMAIN LINE_MASKS : BitAnd(places, LINE_MASKS[k]) # {}

has_won(places) ==
  \E k \in DOMAIN LINE_MASKS : BitAnd(places, LINE_MASKS[k]) = LINE_MASKS[k]

\* A bit hack that isolates the highest set bit instead.
lowest_bit16_highest(bits) ==
  {i \in bits : \A j \in bits : j <= i}

\* A bit hack that clears the lowest set bit instead of isolating it.
lowest_bit16_clear(bits) ==
  IF bits # {} THEN BitAnd(bits, Sub1(bits)) ELSE {}

lowest_bit16(bits) ==
  IF bits # {} THEN BitAnd(bits, BitNot(Sub1(bits))) ELSE {}

\* Whether lowest_bit16(bits) evaluates bits - 1 with a result below 0 (a
\* panic in a build with overflow checks, a wrap-around otherwise).
lowest_bit16_underflows(bits) ==
  IF bits # {} THEN Val(bits) - 1 < 0 ELSE FALSE

\* Board::FULL = 0b111111111
FULL == Bits(511)

\* Board::new(): Self::default()
BoardNew == MkBoard({}, {})

Ok(v) == [ok |-> TRUE, val |-> v]
Err(e) == [ok |-> FALSE, val |-> e]

\* A from_bits that forgets that the player must not hold a line.
from_bits_no_win_check(player, opponent) ==
  IF BitAnd(player, FULL) # player
    THEN Err("player has excess bits set")
  ELSE IF BitAnd(opponent, FULL) # opponent
    THEN Err("opponent has excess bits set")
  ELSE IF BitXor(player, opponent) # BitOr(player, opponent)
    THEN Err("player and opponent have both played the same cell")
  ELSE IF count_ones(player) > count_ones(opponent)
    THEN Err("player has had too many turns")
  ELSE IF count_ones(opponent) > count_ones(player) + 1
    THEN Err("opponent has had too many turns")
  ELSE Ok(MkBoard(player, opponent))

from_bits(player, opponent) ==
  IF BitAnd(player, FULL) # player
    THEN Err("player has excess bits set")
  ELSE IF BitAnd(opponent, FULL) # opponent
    THEN Err("opponent has excess bits set")
  ELSE IF BitXor(player, opponent) # BitOr(player, opponent)
    THEN Err("player and opponent have both played the same cell")
  ELSE IF count_ones(player) > count_ones(opponent)
    THEN Err("player has had too many turns")
  ELSE IF count_ones(opponent) > count_ones(player) + 1
    THEN Err("opponent has had too many turns")
  ELSE IF has_won(player)
    THEN Err("opponent had a turn after player won")
  ELSE Ok(MkBoard(player, opponent))

\* A has_lost that looks at the wrong side.
has_lost_player(b) == has_won(b.player)

has_lost(b) == has_won(b.opponent)

\* A moves() that forgets to mask the complement with FULL.
moves_unmasked(b) ==
  [base |-> b, remain |-> BitNot(BitOr(b.player, b.opponent))]

\* Board::moves(): the iterator Moves { base, remain }
moves(b) ==
  [base |-> b, remain |-> BitAnd(FULL, BitNot(BitOr(b.player, b.opponent)))]

\* The debug assertions of with_move_bits, in the order they are evaluated.
with_move_bits_asserts(b, position) ==
  /\ position # {} /\ (\A i \in position : i <= 8) /\ is_power_of_two(position)
  /\ BitAnd(position, BitOr(b.player, b.opponent)) = {}
  /\ BitXor(b.player, b.opponent) = BitOr(b.player, b.opponent)
  /\ LET r == from_bits(b.player, b.opponent) IN r.ok /\ r.val = b

\* The board with_move_bits returns.
with_move_bits(b, position) ==
  MkBoard(b.opponent, BitOr(b.player, position))

\* A with_move whose range check is off by one.
with_move_off_by_one(b, cell) ==
  IF cell > 9 THEN Err("InvalidMove")
  ELSE IF BitAnd(Shl1(cell), BitOr(b.player, b.opponent)) # {}
    THEN Err("InvalidMove")
  ELSE IF has_won(b.opponent) THEN Err("InvalidMove")
  ELSE Ok(with_move_bits(b, Shl1(cell)))

\* A with_move that lets the game go on after it is won.
with_move_after_win(b, cell) ==
  IF cell > 8 THEN Err("InvalidMove")
  ELSE IF BitAnd(Shl1(cell), BitOr(b.player, b.opponent)) # {}
    THEN Err("InvalidMove")
  ELSE Ok(with_move_bits(b, Shl1(cell)))

with_move(b, cell) ==
  IF cell > 8 THEN Err("InvalidMove")
  ELSE IF BitAnd(Shl1(cell), BitOr(b.player, b.opponent)) # {}
    THEN Err("InvalidMove")
  ELSE IF has_won(b.opponent) THEN Err("InvalidMove")
  ELSE Ok(with_move_bits(b, Shl1(cell)))


Some(v) == [some |-> TRUE, val |-> v]
None == [some |-> FALSE]

\* Moves::next() on the iterator m: the b it picks, the iterator afterwards
\* and the item it returns.
next_bit(m) == lowest_bit16(m.remain)
\* A next() that forgets to clear the bit it took.
next_iter_keeps_bit(m) == m

next_iter(m) ==
  IF m.remain # {}
    THEN [m EXCEPT !.remain = BitAnd(m.remain, BitNot(next_bit(m)))]
    ELSE m
next_item(m) ==
  IF m.remain # {} THEN Some(with_move_bits(m.base, next_bit(m))) ELSE None

(***************************************************************************)
(* The search                                                              *)
(***************************************************************************)
LOSS == -1
WIN == 1
DRAW == 0

Max(a, b) == IF a >= b THEN a ELSE b

\* let mut best_result = -1
BestInit == -1

\* A fold that forgets to negate the opponent's result.
fold_best_no_negation(best_result, r) == Max(best_result, r)

\* best_result = best_result.max(-result)
fold_best(best_result, r) == Max(best_result, -r)

\* solve_inner's frame on entry to the for loop (or at its early return, when
\* the board is lost: then moves() is not called and iter stays empty).
Frame(b) ==
  [ board |-> b,
    lost |-> has_lost(b),
    iter |-> IF has_lost(b) THEN <<>> ELSE <<moves(b)>>,
    best_result |-> BestInit,
    games |-> 0,
    brk |-> FALSE ]

\* A loop without the break on WIN.
frame_finished_no_break(f) ==
  IF f.lost THEN TRUE ELSE f.iter[1].remain = {}

\* Whether the frame has left its loop (or never entered it).
frame_finished(f) ==
  IF f.lost THEN TRUE ELSE IF f.brk THEN TRUE ELSE f.iter[1].remain = {}

\* A solve_inner that forgets the board with no move left.
frame_value_no_draw(f) ==
  IF f.lost THEN <<LOSS, 1>> ELSE <<f.best_result, f.games>>

\* A solve_inner that does not count the lost board itself.
frame_value_loss_zero(f) ==
  IF f.lost THEN <<LOSS, 0>>
  ELSE IF f.games = 0 THEN <<DRAW, 1>>
  ELSE <<f.best_result, f.games>>

\* A solve_inner that does not count the drawn full board itself.
frame_value_draw_zero(f) ==
  IF f.lost THEN <<LOSS, 1>>
  ELSE IF f.games = 0 THEN <<DRAW, 0>>
  ELSE <<f.best_result, f.games>>

\* What solve_inner returns from a finished frame.
frame_value(f) ==
  IF f.lost THEN <<LOSS, 1>>
  ELSE IF f.games = 0 THEN <<DRAW, 1>>
  ELSE <<f.best_result, f.games>>

\* A loop body that breaks as soon as the best result is not a loss.
frame_fold_early_break(f, r) ==
  LET best == fold_best(f.best_result, r[1])
  IN  [f EXCEPT !.games = f.games + r[2],
                !.best_result = best,
                !.brk = (best # LOSS)]

\* One pass of the loop body after the recursive call returned (result, n).
frame_fold(f, r) ==
  LET best == fold_best(f.best_result, r[1])
  IN  [f EXCEPT !.games = f.games + r[2],
                !.best_result = best,
                !.brk = (best = WIN)]

\* solve's match of the StatusInt onto Status.
status_of(r) ==
  CASE r = LOSS -> "Loss"
    [] r = DRAW -> "Draw"
    [] r = WIN -> "Win"
    [] OTHER -> "unreachable"

(***************************************************************************)
(* State                                                                   *)
(***************************************************************************)
VARIABLES
  debug_assertions, \* whether the build keeps debug_assert!
  pc,               \* "start", "idle", "rejected", "solving", "done", "panic"
  board,            \* the Board at hand
  out,              \* the last call on the board API and what it returned
  iter,             \* <<Moves>> while an iterator of board.moves() is live
  yielded,          \* the items that iterator has returned so far
  stack,            \* the frames of solve_inner, the innermost last
  result,           \* <<(Status, usize)>> once solve has returned
  calls             \* the number of recursive calls of solve_inner so far

vars ==
  <<debug_assertions, pc, board, out, iter, yielded, stack, result, calls>>

NoOut == [op |-> "none"]

InitCommon ==
  /\ board = BoardNew
  /\ out = NoOut
  /\ iter = <<>>
  /\ yielded = <<>>
  /\ stack = <<>>
  /\ result = <<>>
  /\ calls = 0

(***************************************************************************)
(* The board API                                                           *)
(***************************************************************************)
\* Every pair of occupancy sets within the 9 cells, and every pair of u16
\* values with at most MaxStrayBits bits set in total.
InRange == SUBSET FULL
Sparse(k) == {a \in SUBSET BitIdx : Cardinality(a) <= k}
FromBitsInputs ==
  (InRange \X InRange)
    \cup {pq \in Sparse(MaxStrayBits) \X Sparse(MaxStrayBits) :
            Cardinality(pq[1]) + Cardinality(pq[2]) <= MaxStrayBits}

\* Board::from_bits(player, opponent), called before any board exists.
FromBits(player, opponent) ==
  /\ pc = "start"
  /\ LET r == from_bits(player, opponent)
     IN  /\ out' = [op |-> "from_bits", arg |-> <<player, opponent>>, res |-> r]
         /\ board' = IF r.ok THEN r.val ELSE board
         /\ pc' = IF r.ok THEN "idle" ELSE "rejected"
  /\ UNCHANGED <<debug_assertions, iter, yielded, stack, result, calls>>

\* board.with_move(cell); the board itself is borrowed immutably.
WithMove(cell) ==
  /\ pc = "idle"
  /\ iter = <<>>
  /\ LET r == with_move(board, cell)
         asserted == r.ok /\ debug_assertions
                       /\ ~with_move_bits_asserts(board, Shl1(cell))
     IN  /\ out' = [op |-> "with_move", self |-> board, arg |-> cell,
                    res |-> r, panicked |-> asserted]
         /\ pc' = IF asserted THEN "panic" ELSE pc
  /\ UNCHANGED <<debug_assertions, board, iter, yielded, stack, result, calls>>

\* board.moves(): a new iterator (one in use before is dropped).
MovesCall ==
  /\ pc = "idle"
  /\ iter' = <<moves(board)>>
  /\ yielded' = <<>>
  /\ out' = [op |-> "moves"]
  /\ UNCHANGED <<debug_assertions, pc, board, stack, result, calls>>

\* iter.next()
MovesNext ==
  /\ pc = "idle"
  /\ iter # <<>>
  /\ LET m == iter[1]
         asserted == m.remain # {} /\ debug_assertions
                       /\ ~with_move_bits_asserts(m.base, next_bit(m))
     IN  /\ iter' = <<next_iter(m)>>
         /\ out' = [op |-> "next", res |-> next_item(m), panicked |-> asserted]
         /\ yielded' = IF next_item(m).some /\ ~asserted
                         THEN Append(yielded, next_item(m).val)
                         ELSE yielded
         /\ pc' = IF asserted THEN "panic" ELSE pc
  /\ UNCHANGED <<debug_assertions, board, stack, result, calls>>

\* The caller goes on with the board with_move returned.
TakeResult ==
  /\ pc = "idle"
  /\ out.op = "with_move"
  /\ out.res.ok
  /\ board' = out.res.val
  /\ out' = NoOut
  /\ UNCHANGED <<debug_assertions, pc, iter, yielded, stack, result, calls>>

\* The caller goes on with the board the iterator returned last, and drops
\* the iterator.
TakeItem ==
  /\ pc = "idle"
  /\ out.op = "next"
  /\ out.res.some
  /\ board' = out.res.val
  /\ out' = NoOut
  /\ iter' = <<>>
  /\ yielded' = <<>>
  /\ UNCHANGED <<debug_assertions, pc, stack, result, calls>>

Init ==
  /\ debug_assertions \in BOOLEAN
  /\ pc = "idle"
  /\ InitCommon

Next ==
  \/ \E cell \in 0 .. MaxCell : WithMove(cell)
  \/ TakeResult
  \/ MovesCall
  \/ MovesNext
  \/ TakeItem

Spec == Init /\ [][Next]_vars

InitFromBits ==
  /\ debug_assertions = TRUE
  /\ pc = "start"
  /\ InitCommon

NextFromBits ==
  /\ pc = "start"
  /\ \E pq \in FromBitsInputs : FromBits(pq[1], pq[2])

SpecFromBits == InitFromBits /\ [][NextFromBits]_vars

(***************************************************************************)
(* solve and solve_inner, as a call stack                                  *)
(***************************************************************************)
Top == stack[Len(stack)]
Pop == SubSeq(stack, 1, Len(stack) - 1)

\* solve(&board) calls solve_inner(board): the outermost frame.
SolveCall ==
  /\ pc = "idle"
  /\ stack = <<>>
  /\ result = <<>>
  /\ stack' = <<Frame(board)>>
  /\ pc' = "solving"
  /\ UNCHANGED <<debug_assertions, board, out, iter, yielded, result, calls>>

\* The for loop of the innermost frame takes the next item of board.moves()
\* and calls solve_inner on it.
Call ==
  /\ pc = "solving"
  /\ stack # <<>>
  /\ ~frame_finished(Top)
  /\ LET m == Top.iter[1]
         asserted == debug_assertions
                       /\ ~with_move_bits_asserts(m.base, next_bit(m))
     IN  IF asserted
           THEN /\ pc' = "panic"
                /\ UNCHANGED <<stack, calls>>
           ELSE /\ stack' = Append([stack EXCEPT ![Len(stack)].iter = <<next_iter(m)>>],
                                   Frame(next_item(m).val))
                /\ calls' = calls + 1
                /\ pc' = pc
  /\ UNCHANGED <<debug_assertions, board, out, iter, yielded, result>>

\* The innermost solve_inner returns to the loop of its caller, which adds
\* the count, folds the negated result and tests for the break.
Return ==
  /\ pc = "solving"
  /\ Len(stack) > 1
  /\ frame_finished(Top)
  /\ stack' = [Pop EXCEPT ![Len(stack) - 1] = frame_fold(@, frame_value(Top))]
  /\ UNCHANGED <<debug_assertions, pc, board, out, iter, yielded, result, calls>>

\* The outermost solve_inner returns to solve, which returns (Status, usize).
SolveReturn ==
  /\ pc = "solving"
  /\ Len(stack) = 1
  /\ frame_finished(Top)
  /\ LET r == frame_value(Top)
     IN  /\ result' = <<[status |-> status_of(r[1]), n |-> r[2]]>>
         /\ pc' = IF status_of(r[1]) = "unreachable" THEN "panic" ELSE "done"
  /\ stack' = <<>>
  /\ UNCHANGED <<debug_assertions, board, out, iter, yielded, calls>>

NextSolve == SolveCall \/ Call \/ Return \/ SolveReturn

\* The boards from_bits accepts.
ValidBoards ==
  {MkBoard(p, o) : <<p, o>> \in
     {pq \in InRange \X InRange : from_bits(pq[1], pq[2]).ok}}

\* solve on any board from_bits accepts.
InitSolve ==
  /\ debug_assertions = TRUE
  /\ pc = "idle"
  /\ board \in ValidBoards
  /\ out = NoOut
  /\ iter = <<>>
  /\ yielded = <<>>
  /\ stack = <<>>
  /\ result = <<>>
  /\ calls = 0

SpecSolve == InitSolve /\ [][NextSolve]_vars

\* solve(&Board::new()), as test_solve_from_empty and main call it.
InitSolveNew ==
  /\ debug_assertions = TRUE
  /\ pc = "idle"
  /\ InitCommon

SpecSolveNew == InitSolveNew /\ [][NextSolve]_vars

\* with_move alone, from Board::new().
NextWithMove ==
  \/ \E cell \in 0 .. MaxCell : WithMove(cell)
  \/ TakeResult

SpecWithMove == Init /\ [][NextWithMove]_vars

\* lowest_bit16(bits) on any u16, as test_lowest_bit16_exhaustive calls it.
LowestBit16(bits) ==
  /\ pc = "start"
  /\ out' = [op |-> "lowest_bit16", arg |-> bits,
             res |-> lowest_bit16(bits),
             underflow |-> lowest_bit16_underflows(bits)]
  /\ pc' = IF lowest_bit16_underflows(bits) /\ debug_assertions
             THEN "panic" ELSE "answered"
  /\ UNCHANGED <<debug_assertions, board, iter, yielded, stack, result, calls>>

NextLowestBit16 ==
  /\ pc = "start"
  /\ \E bits \in SUBSET BitIdx : LowestBit16(bits)

SpecLowestBit16 == InitFromBits /\ [][NextLowestBit16]_vars

\* board.has_lost() on a board given as it stands (test_has_won gives has_won
\* bare patterns; the tests build boards from struct literals).
HasLost(player, opponent) ==
  /\ pc = "start"
  /\ out' = [op |-> "has_lost", arg |-> <<player, opponent>>,
             res |-> has_lost(MkBoard(player, opponent))]
  /\ pc' = "answered"
  /\ UNCHANGED <<debug_assertions, board, iter, yielded, stack, result, calls>>

\* Every 9-bit opponent pattern, beside an empty player and beside a player
\* on all the other cells.
HasLostInputs ==
  {<<{}, o>> : o \in InRange} \cup {<<FULL \ o, o>> : o \in InRange}

NextHasLost ==
  /\ pc = "start"
  /\ \E pq \in HasLostInputs : HasLost(pq[1], pq[2])

SpecHasLost == InitFromBits /\ [][NextHasLost]_vars

(***************************************************************************)
(* The rules of the game, stated without the code's tables: what the       *)
(* properties below compare the code with.                                 *)
(***************************************************************************)
Cells == 0 .. 8
RowOf(c) == c \div 3
ColOf(c) == c % 3
Lines ==
  {{c \in Cells : RowOf(c) = r} : r \in 0 .. 2}
    \cup {{c \in Cells : ColOf(c) = k} : k \in 0 .. 2}
    \cup {{c \in Cells : RowOf(c) = ColOf(c)},
          {c \in Cells : RowOf(c) + ColOf(c) = 2}}
HoldsLine(s) == \E l \in Lines : l \subseteq s

\* Invariants 1-4 of a board.
Inv1(p, o) == p \cap o = {}
Inv2(p, o) == \A i \in p \cup o : i < 9
Inv3(p, o) ==
  \/ Cardinality(o) = Cardinality(p)
  \/ Cardinality(o) = Cardinality(p) + 1
Inv4(p, o) == ~HoldsLine(p)
Inv1234(p, o) == Inv1(p, o) /\ Inv2(p, o) /\ Inv3(p, o) /\ Inv4(p, o)
ValidBoard(b) == Inv1234(b.player, b.opponent)

EmptyCells(b) == Cells \ (b.player \cup b.opponent)
Successor(b, c) == [player |-> b.opponent, opponent |-> b.player \cup {c}]

\* The empty cells of b in increasing order.
RECURSIVE Ascending(_)
Ascending(s) ==
  IF s = {} THEN <<>>
  ELSE LET lo == CHOOSE x \in s : \A y \in s : x <= y
       IN  <<lo>> \o Ascending(s \ {lo})

\* The minimax value of b for the side to move, without pruning.
Complement(v) == -v
SetMax(vs) == CHOOSE v \in vs : \A w \in vs : w <= v
RECURSIVE Minimax(_)
Minimax(b) ==
  IF HoldsLine(b.opponent) THEN LOSS
  ELSE IF EmptyCells(b) = {} THEN DRAW
  ELSE SetMax({Complement(Minimax(Successor(b, c))) : c \in EmptyCells(b)})

StatusName(v) == IF v = LOSS THEN "Loss" ELSE IF v = DRAW THEN "Draw" ELSE "Win"

(***************************************************************************)
(* Properties                                                              *)
(***************************************************************************)
\* C1: whenever solve has returned for a board that satisfies invariants
\* 1-4, the outcome it returned is the minimax value of that board for the
\* side to move, computed without pruning (Loss if the opponent holds a
\* line, else Draw if no cell is empty, else the maximum of the complemented
\* successor values).
C1_SolveIsMinimax ==
  (pc = "done" /\ ValidBoard(board))
    => result[1].status = StatusName(Minimax(board))

\* C1 witness: solve has returned Win after a pruned search (the loop broke
\* with cells left to try).
C1_Witness ==
  /\ pc = "done"
  /\ ValidBoard(board)
  /\ result[1].status = "Win"
  /\ Cardinality(EmptyCells(board)) >= 3
  /\ result[1].n = 1

\* C2: solve(&Board::new()) returns exactly (Draw, 38856).
C2_SolveFromEmpty ==
  (pc = "done" /\ board = BoardNew)
    => result = <<[status |-> "Draw", n |-> 38856]>>

\* C2 witness: solve has returned for the empty board, after a search that
\* broke out of at least one loop early.
C2_Witness ==
  /\ pc = "done"
  /\ board = BoardNew
  /\ result # <<>>
  /\ calls > 9

\* C3, as claimed: solve(&Board::new()) returns (Draw, 255168).
C3_AsClaimed ==
  (pc = "done" /\ board = BoardNew)
    => result = <<[status |-> "Draw", n |-> 255168]>>

\* C3, amended: solve(&Board::new()) returns Draw with the count 38856 of
\* the search with the win short-circuit, which is less than 255168.
C3_Amended ==
  (pc = "done" /\ board = BoardNew)
    => /\ result[1].status = "Draw"
       /\ result[1].n = 38856
       /\ result[1].n < 255168

\* C3 witness: solve has returned a draw for the empty board.
C3_Witness ==
  /\ pc = "done"
  /\ board = BoardNew
  /\ result[1].status = "Draw"

\* C4, as claimed: the count solve returns is the number of boards passed to
\* a recursive call of solve_inner (the input board not counted).
C4_CountIsCalls ==
  pc = "done" => result[1].n = calls

\* C5: from_bits(player, opponent) returns Ok iff invariants 1-4 hold of the
\* pair, an InvalidBoard error otherwise, and on Ok the board holds exactly
\* the two sets given.
InvalidBoardReasons ==
  { "player has excess bits set",
    "opponent has excess bits set",
    "player and opponent have both played the same cell",
    "player has had too many turns",
    "opponent has had too many turns",
    "opponent had a turn after player won" }

C5_FromBitsAcceptsValid ==
  out.op = "from_bits" =>
    LET p == out.arg[1]
        o == out.arg[2]
    IN  /\ out.res.ok <=> Inv1234(p, o)
        /\ out.res.ok => (out.res.val = [player |-> p, opponent |-> o]
                            /\ board = out.res.val /\ pc = "idle")
        /\ ~out.res.ok => (out.res.val \in InvalidBoardReasons
                             /\ pc = "rejected")

\* C5 witness: from_bits has accepted a board whose opponent holds a line
\* with as many moves as the player.
C5_Witness ==
  /\ out.op = "from_bits"
  /\ out.res.ok
  /\ HoldsLine(out.arg[2])
  /\ Cardinality(out.arg[1]) = Cardinality(out.arg[2])

C7_WithMove ==
  (out.op = "with_move" /\ ValidBoard(out.self)) =>
    LET B == out.self
        c == out.arg
        illegal == \/ c \notin Cells
                   \/ c \in B.player \cup B.opponent
                   \/ HoldsLine(B.opponent)
    IN  /\ ~out.res.ok <=> illegal
        /\ ~out.res.ok => out.res.val = "InvalidMove"
        /\ out.res.ok => out.res.val = Successor(B, c)
        /\ board = B
        /\ ~out.panicked

\* C7 witness: with_move was refused only because the opponent holds a line
\* (the cell is in range and empty).
C7_Witness ==
  /\ out.op = "with_move"
  /\ ValidBoard(out.self)
  /\ ~out.res.ok
  /\ out.arg \in EmptyCells(out.self)
  /\ HoldsLine(out.self.opponent)

\* C8: with_move preserves invariants 1-4.  From Board::new(), under
\* successful with_move calls alone, the board always satisfies them and
\* from_bits accepts it, and so does every board with_move returns.
Accepted(b) == from_bits(b.player, b.opponent) = Ok(b)

C8_WithMovePreservesInvariants ==
  /\ ValidBoard(board)
  /\ Accepted(board)
  /\ (out.op = "with_move" /\ out.res.ok) =>
        (ValidBoard(out.res.val) /\ Accepted(out.res.val))

\* C8 witness: with_move has returned a full board, after nine moves.
C8_Witness ==
  /\ out.op = "with_move"
  /\ out.res.ok
  /\ EmptyCells(out.res.val) = {}

\* C9, as claimed: every board the iterator of B.moves() yields satisfies
\* invariants 1-4 (from_bits accepts it) when B does, also when B.opponent
\* holds a line.
C9_MovesYieldValid ==
  (iter # <<>> /\ ValidBoard(iter[1].base)) =>
    \A k \in 1 .. Len(yielded) : ValidBoard(yielded[k]) /\ Accepted(yielded[k])

\* C10: during solve(&Board::new()) no debug assertion of with_move_bits
\* fails, every board passed to solve_inner satisfies invariants 1-4, and
\* moves() is iterated only on boards whose opponent holds no line.
C10_SearchBuildsValidBoards ==
  (board = BoardNew) =>
    /\ pc # "panic"
    /\ \A k \in 1 .. Len(stack) :
         /\ ValidBoard(stack[k].board)
         /\ Accepted(stack[k].board)
         /\ stack[k].iter # <<>> =>
              (~HoldsLine(stack[k].board.opponent)
                 /\ stack[k].iter[1].base = stack[k].board)
    /\ (pc = "solving" /\ stack # <<>> /\ ~frame_finished(Top)) =>
         with_move_bits_asserts(Top.iter[1].base, next_bit(Top.iter[1]))

\* C10 witness: the search is nine plies deep, at a full board.
C10_Witness ==
  /\ pc = "solving"
  /\ board = BoardNew
  /\ Len(stack) = 10
  /\ EmptyCells(Top.board) = {}

\* C11: has_lost is true iff the opponent's cells contain all three cells of
\* one of the 8 lines of the grid (rows, columns, diagonals; cell i at row
\* i div 3, column i mod 3), whatever the player holds; and the 8 masks of
\* LINE_MASKS are pairwise distinct with exactly 3 bits each.
C11_HasLostIffLine ==
  /\ out.op = "has_lost" => (out.res <=> HoldsLine(out.arg[2]))
  /\ Len(LINE_MASKS) = 8
  /\ \A j, k \in DOMAIN LINE_MASKS : j # k => LINE_MASKS[j] # LINE_MASKS[k]
  /\ \A k \in DOMAIN LINE_MASKS : count_ones(LINE_MASKS[k]) = 3
  /\ {LINE_MASKS[k] : k \in DOMAIN LINE_MASKS} = Lines

\* C11 witness: has_lost answered true for an opponent who holds only the
\* anti-diagonal and one more cell.
C11_Witness ==
  /\ out.op = "has_lost"
  /\ out.res
  /\ out.arg[2] = {2, 4, 6, 7}

RECURSIVE RefSolve(_), RefLoop(_, _, _, _, _)
RefSolve(b) ==
  IF HoldsLine(b.opponent) THEN <<LOSS, 1>>
  ELSE IF EmptyCells(b) = {} THEN <<DRAW, 1>>
  ELSE RefLoop(b, Ascending(EmptyCells(b)), 1, LOSS, 0)
RefLoop(b, E, k, best, games) ==
  IF k > Len(E) THEN <<best, games>>
  ELSE LET r == RefSolve(Successor(b, E[k]))
       IN  IF r[1] = LOSS
             THEN <<WIN, games + r[2]>>
             ELSE RefLoop(b, E, k + 1,
                          IF Complement(r[1]) > best THEN Complement(r[1]) ELSE best,
                          games + r[2])

\* C13: in every activation of solve_inner the successors are taken in
\* increasing cell order; an activation whose running best is Win (a
\* successor evaluated to Loss) makes no further call (stated of the caller
\* of the innermost activation: the frames below it do not change while it
\* runs); and what an
\* activation returns is the result of the search described above: the count
\* is the sum of the counts of the successors evaluated up to and including
\* the first Loss, or of all of them when there is none.
C13_OrderedShortCircuit ==
  /\ \A k \in {i \in {Len(stack) - 1} : i >= 1} :
       LET f == stack[k]
           E == Ascending(EmptyCells(f.board))
           j == Len(E) - Cardinality(f.iter[1].remain)
       IN  /\ j >= 1
           /\ f.iter[1].remain = {E[i] : i \in (j + 1) .. Len(E)}
           /\ stack[k + 1].board = Successor(f.board, E[j])
           /\ f.best_result # WIN
           /\ ~f.brk
  /\ (pc = "solving" /\ stack # <<>>) =>
       /\ (~Top.lost) => (Top.brk <=> Top.best_result = WIN)
       /\ frame_finished(Top) => frame_value(Top) = RefSolve(Top.board)
  /\ pc = "done" =>
       LET r == RefSolve(board)
       IN  result = <<[status |-> StatusName(r[1]), n |-> r[2]]>>

\* C13 witness: an activation has broken out of its loop on a Win with cells
\* left to try, after evaluating more than one successor.
C13_Witness ==
  /\ pc = "solving"
  /\ stack # <<>>
  /\ ~Top.lost
  /\ Top.brk
  /\ Top.iter[1].remain # {}
  /\ Cardinality(EmptyCells(Top.board)) - Cardinality(Top.iter[1].remain) >= 2
  /\ Top.games >= 3

\* The number of occupied cells of a board.
Occupied(b) == Cardinality(b.player \cup b.opponent)

\* C14: solve terminates on every accepted board.  Each recursive call is on
\* a board with exactly one more occupied cell, so the frames below the
\* outermost one never outnumber the empty cells of the board given (at most
\* 9, from the empty board), and solve returns in the end.
C14_DepthBounded ==
  /\ Len(stack) <= 1 + Cardinality(EmptyCells(board))
  /\ Len(stack) <= 10
  /\ stack # <<>> => stack[1].board = board
  /\ \A k \in 1 .. (Len(stack) - 1) :
       Occupied(stack[k + 1].board) = Occupied(stack[k].board) + 1

\* A variant of the search: the frames read as the digits of a number in
\* the factorial number system, the outermost the most significant, each
\* digit one more than the number of cells its loop has still to try (the
\* k-th frame has at most 10 - k of them).
RECURSIVE Factorial(_)
Factorial(n) == IF n <= 1 THEN 1 ELSE n * Factorial(n - 1)

RECURSIVE StackRank(_)
StackRank(k) ==
  IF k > Len(stack) THEN 0
  ELSE LET f == stack[k]
           digit == IF f.iter = <<>> THEN 1
                    ELSE 1 + Cardinality(f.iter[1].remain)
       IN  digit * Factorial(11 - k) + StackRank(k + 1)

Rank ==
  IF pc = "idle" THEN Factorial(11)
  ELSE IF pc = "solving" THEN 1 + StackRank(1)
  ELSE 0

\* solve has returned, or one of SolveCall, Call, Return and SolveReturn
\* can act (Call, Return and SolveReturn between them cover every innermost
\* frame): the search has neither panicked nor stopped short.
Advancing ==
  \/ pc = "done"
  \/ pc = "idle" /\ stack = <<>> /\ result = <<>>
  \/ pc = "solving" /\ stack # <<>>

\* The depth bound holds throughout, solve is never stuck before it has
\* returned, and every step decreases the variant, a natural number: no run
\* is infinite, and every run ends with solve returned.
C14_Terminates ==
  [][ /\ Rank' < Rank
      /\ C14_DepthBounded'
      /\ Advancing' ]_vars

\* C14 witness: solve has returned for the empty board's first successor
\* after a search that went eight plies below it.
C14_Witness ==
  /\ pc = "done"
  /\ Occupied(board) = 1
  /\ calls >= 8

\* The number of successors whose search has returned to the k-th frame.
Returned(k) ==
  LET f == stack[k]
      tried == Cardinality(EmptyCells(f.board)) - Cardinality(f.iter[1].remain)
  IN  IF k < Len(stack) THEN tried - 1 ELSE tried

RECURSIVE WithMoveClosure(_)
WithMoveClosure(S) ==
  LET T == S \cup {with_move(bc[1], bc[2]).val :
                     bc \in {x \in S \X (0 .. 8) : with_move(x[1], x[2]).ok}}
  IN  IF T = S THEN S ELSE WithMoveClosure(T)

ReachableBoards == WithMoveClosure({BoardNew})

\* C16: from_bits returns Ok for exactly the pairs (player, opponent) that
\* are a board reachable from Board::new() by successful with_move calls,
\* and then it returns that board.
C16_AcceptedIffReachable ==
  out.op = "from_bits" =>
    /\ out.res.ok <=> MkBoard(out.arg[1], out.arg[2]) \in ReachableBoards
    /\ out.res.ok => out.res.val = MkBoard(out.arg[1], out.arg[2])

\* C16 witness: from_bits has accepted a full board, nine moves from the
\* empty one.
C16_Witness ==
  /\ out.op = "from_bits"
  /\ out.res.ok
  /\ EmptyCells(out.res.val) = {}
  /\ out.res.val \in ReachableBoards

\* The Ok values of b.with_move(c) for c = from, ..., 8, in that order.
RECURSIVE OkResults(_, _)
OkResults(b, from) ==
  IF from > 8 THEN <<>>
  ELSE LET r == with_move(b, from)
       IN  (IF r.ok THEN <<r.val>> ELSE <<>>) \o OkResults(b, from + 1)

\* C17: on a valid board B on which the opponent holds no line, what
\* B.moves() has yielded is at every moment a prefix of the sequence of Ok
\* results of B.with_move(c), c = 0, 1, ..., 8, and is the whole of it when
\* the iterator is exhausted; next() does not panic on such a board.
C17_MovesAgreeWithMove ==
  (iter # <<>> /\ ValidBoard(iter[1].base)
     /\ ~HoldsLine(iter[1].base.opponent)) =>
    LET all == OkResults(iter[1].base, 0)
        n == Len(yielded)
    IN  /\ pc # "panic"
        /\ n <= Len(all)
        /\ yielded = SubSeq(all, 1, n)
        /\ n + Cardinality(iter[1].remain) = Len(all)
        /\ (out.op = "next" /\ ~out.res.some) => yielded = all

\* C17 witness: the iterator over a valid board with three empty cells and
\* no opponent line has yielded three boards and then None.
C17_Witness ==
  /\ iter # <<>>
  /\ ValidBoard(iter[1].base)
  /\ ~HoldsLine(iter[1].base.opponent)
  /\ out.op = "next"
  /\ ~out.res.some
  /\ Len(yielded) = 3
  /\ yielded = OkResults(iter[1].base, 0)

\* The index of the lowest set bit of a non-zero u16 (its trailing zeros).
TrailingZeros(a) == CHOOSE i \in a : \A j \in a : i <= j

\* C18: lowest_bit16(0) = 0 and, for every n in 1..=65535, lowest_bit16(n)
\* is 1 << (index of the lowest set bit of n); the subtraction bits - 1 is
\* not evaluated for bits = 0, so it never underflows and never panics.
C18_LowestBit ==
  out.op = "lowest_bit16" =>
    /\ out.arg = {} => out.res = {}
    /\ out.arg # {} =>
         /\ out.res = Shl1(TrailingZeros(out.arg))
         /\ Val(out.res) = 2 ^ TrailingZeros(out.arg)
    /\ ~out.underflow
    /\ pc = "answered"

\* C18 witness: lowest_bit16(0b1111_0000_0000_1000) has returned 0b1000.
C18_Witness ==
  /\ out.op = "lowest_bit16"
  /\ out.arg = {3, 12, 13, 14, 15}
  /\ out.res = {3}

=============================================================================
